---------------------------- MODULE Spec2Model ----------------------------
(***************************************************************************)
(* Model of the all-sky-camera image selection of asc_website:             *)
(*   src/src/tools.py        julian_date, siderial_time,                   *)
(*                           get_sidereal_time, select_images              *)
(*   src/src/asc_website.py  the catalogue load (night_date column)        *)
(*                                                                         *)
(* Arithmetic.  The source computes sidereal times in binary64 hours.      *)
(* Here a sidereal time is an integer number of tenths of a second         *)
(* (Tick: 36000 to the hour, 864000 to the 24 hours), every term of the    *)
(* polynomial being evaluated exactly and floored to that unit.  Against   *)
(* the source the value differs by less than one tick.  The total size     *)
(* in megabytes IS kept in binary64 (53-bit significand, round to          *)
(* nearest, ties to even), because the result is compared for equality.    *)
(***************************************************************************)
EXTENDS Integers, Sequences, FiniteSets, TLC

VARIABLES
    pc,               \* position inside select_images
    df,               \* the shared catalogue (module-level df of asc_website)
    args,             \* the arguments of the call in progress
    df_filtered,      \* select_images' private filtered copy
    nights,           \* groupby("night_date"): the group keys still to visit
    selected_images,  \* the list being accumulated / returned
    total_size_mb,    \* the binary64 total being accumulated / returned
    utc_time,         \* get_sidereal_time's argument
    st,               \* siderial_time's local st
    st_pc,            \* position inside siderial_time
    julian            \* julian_date's locals d and b, and 2 * jd

vars == <<pc, df, args, df_filtered, nights, selected_images, total_size_mb,
          utc_time, st, st_pc, julian>>

selvars == <<pc, df, args, df_filtered, nights, selected_images, total_size_mb>>

calcvars == <<utc_time, st, st_pc, julian>>

---------------------------------------------------------------------------
(* Exact integer helpers (TLC integers are 32 bits wide).                  *)

Max(a, b) == IF a >= b THEN a ELSE b

Min(a, b) == IF a <= b THEN a ELSE b

Abs(a) == IF a < 0 THEN -a ELSE a

\* floor(a * b / c) for 0 <= a < c, 0 <= b < c and 0 < c < 700000, formed
\* without the product a * b: b is split at 256.
MulDivRem(a, b, c) ==
    LET hi == a * (b \div 256)
        lo == a * (b % 256)
    IN  256 * (hi \div c) + ((256 * (hi % c) + lo) \div c)

\* floor(a * b / c) for b >= 0 and 0 < c < 700000: a and b are split at c.
MulDivNat(a, b, c) ==
    (a \div c) * b + (a % c) * (b \div c) + MulDivRem(a % c, b % c, c)

\* floor(a * b / c) for 0 < c < 700000.
MulDiv(a, b, c) ==
    IF b >= 0 THEN MulDivNat(a, b, c) ELSE MulDivNat(-a, -b, c)

\* Python's int(x) on a quotient n / d, d > 0: truncation toward zero.
TruncDiv(n, d) == IF n >= 0 THEN n \div d ELSE -((-n) \div d)

---------------------------------------------------------------------------
(* julian_date, tools.py:151-177.  siderial_time calls it with utc = 0,    *)
(* so h = 0 and jd = K - 1524.5 for an integer K; the model carries 2*jd.  *)

\* tools.py:156-161: <<y, m>>.
julian_ym(year, month) ==
    IF month > 2 THEN <<year, month>> ELSE <<year - 1, month + 12>>

\* tools.py:162-175: <<d, b>>, the day used and the calendar correction.
julian_db(year, month, day) ==
    LET y == julian_ym(year, month)[1]
    IN  IF year <= 1582 /\ month <= 10 /\ day <= 4
          THEN <<day, 0>>
        ELSE IF year = 1582 /\ month = 10 /\ day > 4 /\ day < 15
          THEN <<15, -10>>
        ELSE LET a == TruncDiv(y, 100)
             IN  <<day, 2 - a + TruncDiv(a, 4)>>

\* tools.py:176 with h = 0, doubled: 2 * jd.
julian_date2(year, month, day) ==
    LET ym == julian_ym(year, month)
        db == julian_db(year, month, day)
    IN  2 * ( TruncDiv(1461 * (ym[1] + 4716), 4)
            + TruncDiv(306001 * (ym[2] + 1), 10000)
            + db[1] + db[2] ) - 3049

---------------------------------------------------------------------------
(* siderial_time, tools.py:180-199, in ticks of 0.1 s.                     *)

\* 24 hours in ticks: the modulus of tools.py:198.
Day24 == 864000

\* tools.py:209: long = 138.60298 degrees, in units of 1e-5 degree.
long == 13860298

\* tools.py:191: t = (jd - 2451545.0) / 36525, as T2 / 73050 with
\* T2 the number of half days since J2000.0.
HalfDaysSinceJ2000(year, month, day) == julian_date2(year, month, day) - 4903090

\* tools.py:193: Greenwich sidereal time at 0h UTC,
\* (24110.54841 + 8640184.812866 t + 0.093104 t^2 - 0.0000062 t^3) / 3600 h.
GreenwichAt0h(year, month, day) ==
    LET T2 == HalfDaysSinceJ2000(year, month, day)
        tT2  == MulDiv(T2, T2, 73050)            \* t * T2
        ttT2 == MulDiv(tT2, T2, 73050)           \* t^2 * T2
    IN  241105
        + MulDiv(86401848, T2, 73050)
        + (MulDiv(tT2, 93104, 73050) \div 100000)
        - (MulDiv(ttT2, 62, 73050) \div 1000000)

\* tools.py:207: utc = hour + minute / 60 + second / 3600, in seconds.
UtcSeconds(t) == t.hour * 3600 + t.minute * 60 + t.second

\* tools.py:195: 1.00273790935 * utc.
UtcTerm(t) ==
    10 * UtcSeconds(t) + (MulDiv(27379094, UtcSeconds(t), 10000) \div 100000)

\* tools.py:197: long / 15 hours.
LongTerm == (long * 24) \div 1000

\* Python's x % 24: the result has the sign of the divisor.
PyMod(x, m) == x % m

\* C's fmod: the result has the sign of the dividend.
TruncMod(x, m) == x - m * TruncDiv(x, m)

\* The reduction of tools.py:198 by truncation, as fmod does it.
Mod24Truncating(x) == TruncMod(x, Day24)

\* tools.py:198: st = st % 24.
Mod24(x) == PyMod(x, Day24)

\* tools.py:180-199 composed.
siderial_time(t) ==
    Mod24(GreenwichAt0h(t.year, t.month, t.day) + UtcTerm(t) + LongTerm)

\* tools.py:202-211.
get_sidereal_time(t) == siderial_time(t)

---------------------------------------------------------------------------
(* binary64 values of total_size_mb, tools.py:284, 330, 349.               *)
(* A positive value is [mant, exp]: mant the 53 bits of the significand,   *)
(* most significant first (mant[1] = 1), and the value is mant * 2^exp.    *)
(* Zero has the empty significand.  Sizes are far from the exponent        *)
(* limits, so subnormals, infinities and NaN do not arise.                 *)

\* The significand width of binary64.
Precision == 53

FZero == [mant |-> <<>>, exp |-> 0]

Zeros(n) == [i \in 1..n |-> 0]

\* The number of bits of q, for 0 <= q < 2^30.
BitLen(q) == CHOOSE k \in 0..30 : q < 2^k /\ (k = 0 \/ q >= 2^(k - 1))

\* The bits of q, most significant first.
IntBits(q) == [j \in 1..BitLen(q) |-> (q \div 2^(BitLen(q) - j)) % 2]

\* bits + 1 for a bit string that is not all ones.
Increment(bits) ==
    LET p == CHOOSE i \in 1..Len(bits) :
                 bits[i] = 0 /\ \A j \in (i + 1)..Len(bits) : bits[j] = 1
    IN  [i \in 1..Len(bits) |-> IF i < p THEN bits[i] ELSE IF i = p THEN 1 ELSE 0]

\* The binary64 nearest to bits * 2^e (+ a positive amount below the last
\* bit when sticky), ties to even.
RoundToDouble(bits, e, sticky) ==
    IF \A i \in 1..Len(bits) : bits[i] = 0 THEN FZero
    ELSE
    LET first == CHOOSE i \in 1..Len(bits) :
                     bits[i] = 1 /\ \A j \in 1..(i - 1) : bits[j] = 0
        sig   == SubSeq(bits, first, Len(bits))
        n     == Len(sig)
    IN  IF n <= Precision
          THEN [mant |-> sig \o Zeros(Precision - n), exp |-> e - (Precision - n)]
        ELSE
        LET kept  == SubSeq(sig, 1, Precision)
            guard == sig[Precision + 1]
            rest  == sticky \/ \E i \in (Precision + 2)..n : sig[i] = 1
            up    == guard = 1 /\ (rest \/ kept[Precision] = 1)
        IN  IF ~up THEN [mant |-> kept, exp |-> e + (n - Precision)]
            ELSE IF \A i \in 1..Precision : kept[i] = 1
              THEN [mant |-> <<1>> \o Zeros(Precision - 1),
                    exp  |-> e + (n - Precision) + 1]
            ELSE [mant |-> Increment(kept), exp |-> e + (n - Precision)]

\* FDiv develops the fraction in Chunks digits of ChunkBits bits each:
\* enough for Precision + 2 bits after the first one of any quotient
\* >= 2^-30.  A remainder times 2^ChunkBits must stay below 2^31.
Chunks == 9

ChunkBits == 10

\* n / d in binary64 (correctly rounded), for 0 <= n < 2^30 * d, 0 < d < 2^21.
FDiv(n, d) ==
    LET rem[k \in 0..Chunks] ==
            IF k = 0 THEN n % d ELSE (rem[k - 1] * 2^ChunkBits) % d
        digit == [k \in 1..Chunks |-> (rem[k - 1] * 2^ChunkBits) \div d]
        frac  == [i \in 1..(Chunks * ChunkBits) |->
                    (digit[((i - 1) \div ChunkBits) + 1]
                       \div 2^(ChunkBits - 1 - ((i - 1) % ChunkBits))) % 2]
    IN  RoundToDouble(IntBits(n \div d) \o frac, -(Chunks * ChunkBits),
                      rem[Chunks] # 0)

\* x + y in binary64, for x, y >= 0.  The carry into a position is found
\* by look-ahead: some lower position generates it and every position in
\* between propagates it.
FAdd(x, y) ==
    IF x.mant = <<>> THEN y
    ELSE IF y.mant = <<>> THEN x
    ELSE
    LET e  == Min(x.exp, y.exp)
        xs == x.mant \o Zeros(x.exp - e)
        ys == y.mant \o Zeros(y.exp - e)
        n  == Max(Len(xs), Len(ys)) + 1
        X  == Zeros(n - Len(xs)) \o xs
        Y  == Zeros(n - Len(ys)) \o ys
        carry == [i \in 1..n |->
                    IF \E j \in (i + 1)..n :
                          /\ X[j] + Y[j] = 2
                          /\ \A k \in (i + 1)..(j - 1) : X[k] + Y[k] = 1
                    THEN 1 ELSE 0]
    IN  RoundToDouble([i \in 1..n |-> (X[i] + Y[i] + carry[i]) % 2], e, FALSE)

---------------------------------------------------------------------------
(* Dates and the catalogue, asc_website.py:37-41.  Strings are sequences   *)
(* of one-character strings.                                               *)

DigitValue(c) ==
    CASE c = "0" -> 0 [] c = "1" -> 1 [] c = "2" -> 2 [] c = "3" -> 3
      [] c = "4" -> 4 [] c = "5" -> 5 [] c = "6" -> 6 [] c = "7" -> 7
      [] c = "8" -> 8 [] c = "9" -> 9

\* The number written by the digits s[from..to].
Number(s, from, to) ==
    LET val[i \in (from - 1)..to] ==
            IF i = from - 1 THEN 0 ELSE 10 * val[i - 1] + DigitValue(s[i])
    IN  val[to]

\* asc_website.py:39-41: pd.to_datetime(Directory.str[:8]), "YYYYMMDD".
NightDate(directory) ==
    LET s == SubSeq(directory, 1, 8)
    IN  [year |-> Number(s, 1, 4), month |-> Number(s, 5, 6), day |-> Number(s, 7, 8)]

\* tools.py:280: pandas reads the "%Y-%m-%d" string it is compared with.
ParseDate(s) ==
    [year |-> Number(s, 1, 4), month |-> Number(s, 6, 7), day |-> Number(s, 9, 10)]

\* The order of two dates (timestamps at midnight).
DateOrd(d) == d.year * 10000 + d.month * 100 + d.day

Stamp(y, mo, d, h, mi, s) ==
    [year |-> y, month |-> mo, day |-> d, hour |-> h, minute |-> mi, second |-> s]

\* The rows a catalogue file is drawn from: three observing nights
\* (2021-10-14, 2021-10-15, 2021-10-25, Adelaide on UTC+10:30).  Their
\* sidereal times are 23.9 h, 0.4 h, 0.1 h, 23.9 h, 12.0 h and 0.1 h
\* (860400, 14399, 3600, 860400, 432000 and 3600 ticks).
CsvRows ==
    { [ Directory            |-> <<"2","0","2","1","1","0","1","4","/","a">>,
        Timestamp_middle     |-> Stamp(2021, 10, 14, 23, 36, 23),
        Timestamp_middle_UTC |-> Stamp(2021, 10, 14, 13, 6, 23),
        Filesize_bytes       |-> 10600000 ],
      [ Directory            |-> <<"2","0","2","1","1","0","1","4","/","b">>,
        Timestamp_middle     |-> Stamp(2021, 10, 15, 0, 6, 18),
        Timestamp_middle_UTC |-> Stamp(2021, 10, 14, 13, 36, 18),
        Filesize_bytes       |-> 10800000 ],
      [ Directory            |-> <<"2","0","2","1","1","0","1","5","/","c">>,
        Timestamp_middle     |-> Stamp(2021, 10, 15, 23, 44, 25),
        Timestamp_middle_UTC |-> Stamp(2021, 10, 15, 13, 14, 25),
        Filesize_bytes       |-> 10700000 ],
      [ Directory            |-> <<"2","0","2","1","1","0","1","5","/","d">>,
        Timestamp_middle     |-> Stamp(2021, 10, 15, 23, 32, 27),
        Timestamp_middle_UTC |-> Stamp(2021, 10, 15, 13, 2, 27),
        Filesize_bytes       |-> 10000000 ],
      [ Directory            |-> <<"2","0","2","1","1","0","2","5","/","e">>,
        Timestamp_middle     |-> Stamp(2021, 10, 26, 10, 57, 9),
        Timestamp_middle_UTC |-> Stamp(2021, 10, 26, 0, 27, 9),
        Filesize_bytes       |-> 10500000 ],
      [ Directory            |-> <<"2","0","2","1","1","0","2","5","/","f">>,
        Timestamp_middle     |-> Stamp(2021, 10, 25, 23, 5, 6),
        Timestamp_middle_UTC |-> Stamp(2021, 10, 25, 12, 35, 6),
        Filesize_bytes       |-> 11000000 ] }

\* The longest catalogue explored.
MaxRecords == 3

\* asc_website.py:37-41: a row as loaded, with its night_date column.
LoadRow(r) == r @@ [night_date |-> NightDate(r.Directory)]

\* The catalogues: the files of up to MaxRecords distinct rows, in any order.
Catalogues ==
    UNION { { [i \in 1..n |-> LoadRow(f[i])] :
                f \in { g \in [1..n -> CsvRows] :
                          \A i, j \in 1..n : i # j => g[i] # g[j] } } :
            n \in 0..MaxRecords }

---------------------------------------------------------------------------
(* The arguments of select_images, tools.py:214-222.                       *)

DateStrings ==
    { <<"2","0","2","1","-","1","0","-","1","4">>,
      <<"2","0","2","1","-","1","0","-","1","5">>,
      <<"2","0","2","1","-","1","0","-","2","5">> }

\* sidereal_start: 23.5 h, 23.9 h, 0.1 h.
SiderealStarts == {846000, 860400, 3600}

\* sidereal_end: None is the empty sequence, a value is a one-element one.
None == <<>>

\* sidereal_end when given: 0.1 h, 0.5 h, 12.0 h.
SiderealEnds == {<<3600>>, <<18000>>, <<432000>>}

\* tools.py:220: time_limit = 0.5.
DefaultTimeLimit == 18000

\* time_limit: the default and 0.2 h.
TimeLimits == {DefaultTimeLimit, 7200}

\* The calls explored.  The range policy never reads time_limit
\* (tools.py:332-349), so it is left at its default there.
Calls ==
    { [start_date |-> sd, end_date |-> ed, sidereal_start |-> ss,
       sidereal_end |-> se, time_limit |-> tl, limit_clear_images |-> lc] :
        sd \in DateStrings, ed \in DateStrings, ss \in SiderealStarts,
        se \in {None}, tl \in TimeLimits, lc \in BOOLEAN }
    \cup
    { [start_date |-> sd, end_date |-> ed, sidereal_start |-> ss,
       sidereal_end |-> se, time_limit |-> DefaultTimeLimit,
       limit_clear_images |-> lc] :
        sd \in DateStrings, ed \in DateStrings, ss \in SiderealStarts,
        se \in SiderealEnds, lc \in BOOLEAN }

NoArgs == [start_date |-> <<>>, end_date |-> <<>>, sidereal_start |-> 0,
           sidereal_end |-> None, time_limit |-> DefaultTimeLimit,
           limit_clear_images |-> FALSE]

\* julian_date has not been called.
NoJulian == <<>>

NoTime == Stamp(0, 0, 0, 0, 0, 0)

---------------------------------------------------------------------------
(* select_images, tools.py:279-350: the row tests.                         *)

\* The mask of tools.py:280 read on the capture day instead of the night.
InDateRangeByCapture(r, a) ==
    /\ DateOrd(r.Timestamp_middle) >= DateOrd(ParseDate(a.start_date))
    /\ DateOrd(r.Timestamp_middle) <= DateOrd(ParseDate(a.end_date))

\* tools.py:280: (night_date >= start_date) & (night_date <= end_date).
InDateRange(r, a) ==
    /\ DateOrd(r.night_date) >= DateOrd(ParseDate(a.start_date))
    /\ DateOrd(r.night_date) <= DateOrd(ParseDate(a.end_date))

\* between(...) with both ends left out.
IsClearExclusive(r) ==
    r.Filesize_bytes > 10500000 /\ r.Filesize_bytes < 11000000

\* tools.py:289: between(10500000, 11000000), both ends included.
IsClear(r) ==
    r.Filesize_bytes >= 10500000 /\ r.Filesize_bytes <= 11000000

\* The distance without the wrap at 0/24.
PlainDistance(t, target) == Abs(t - target)

\* tools.py:311-314: np.minimum((t - target) % 24, (target - t) % 24).
CircularDistance(t, target) ==
    Min(PyMod(t - target, Day24), PyMod(target - t, Day24))

\* The window of tools.py:339-340 without its upper end.
InWindowHalfOpen(t, a) ==
    t >= a.sidereal_start /\ t < a.sidereal_end[1]

\* tools.py:339-340: (t >= sidereal_start) & (t <= sidereal_end).
InWindow(t, a) ==
    t >= a.sidereal_start /\ t <= a.sidereal_end[1]

\* The wrapped window joined with & instead of |.
InWrappedWindowAnd(t, a) ==
    t >= a.sidereal_start /\ t <= a.sidereal_end[1]

\* tools.py:344-345: (t >= sidereal_start) | (t <= sidereal_end).
InWrappedWindow(t, a) ==
    t >= a.sidereal_start \/ t <= a.sidereal_end[1]

\* The group keys in the order the rows first show them (sort = False).
GroupKeysUnsorted(rows) ==
    LET firsts == SelectSeq([i \in 1..Len(rows) |-> i],
                            LAMBDA i : \A j \in 1..(i - 1) :
                                          rows[j].night_date # rows[i].night_date)
    IN  [k \in 1..Len(firsts) |-> rows[firsts[k]].night_date]

\* tools.py:302: groupby("night_date") visits the distinct keys in
\* ascending order.
GroupKeys(rows) ==
    LET keys == { rows[i].night_date : i \in 1..Len(rows) }
    IN  CHOOSE s \in [1..Cardinality(keys) -> keys] :
            \A i, j \in 1..Cardinality(keys) :
                i < j => DateOrd(s[i]) < DateOrd(s[j])

\* A group of tools.py:302: the rows of one night, in row order.
NightGroup(rows, night) ==
    SelectSeq(rows, LAMBDA r : r.night_date = night)

\* tools.py:310-316: the rows of a group within time_limit of the target.
ValidImages(group, a) ==
    SelectSeq(group, LAMBDA r :
        CircularDistance(r.sidereal_time, a.sidereal_start) < a.time_limit)

\* The choice of tools.py:325-327 made on the circular distance of the
\* pre-filter instead of the absolute difference.
ClosestCircular(valid, a) ==
    { valid[i] : i \in { k \in 1..Len(valid) :
        \A j \in 1..Len(valid) :
            CircularDistance(valid[k].sidereal_time, a.sidereal_start)
              <= CircularDistance(valid[j].sidereal_time, a.sidereal_start) } }

\* tools.py:325-327: the rows argsort may put first: those whose absolute
\* difference to the target is least (argsort's default sort is not stable,
\* so among equal differences any may come first).
Closest(valid, a) ==
    { valid[i] : i \in { k \in 1..Len(valid) :
        \A j \in 1..Len(valid) :
            Abs(valid[k].sidereal_time - a.sidereal_start)
              <= Abs(valid[j].sidereal_time - a.sidereal_start) } }

\* tools.py:349: sum(valid_images["Filesize (bytes)"]).
SumBytes(rows) ==
    LET acc[i \in 0..Len(rows)] ==
            IF i = 0 THEN 0 ELSE acc[i - 1] + rows[i].Filesize_bytes
    IN  acc[Len(rows)]

\* tools.py:348: list(valid_images["Directory"]).
Directories(rows) == [i \in 1..Len(rows) |-> rows[i].Directory]

---------------------------------------------------------------------------
(* select_images, tools.py:279-350: the steps.                             *)

\* The catalogue is loaded once (asc_website.py:37-41); no call is running.
Init ==
    /\ df \in Catalogues
    /\ pc = "idle"
    /\ args = NoArgs
    /\ df_filtered = <<>>
    /\ nights = <<>>
    /\ selected_images = <<>>
    /\ total_size_mb = FZero
    /\ utc_time = NoTime
    /\ st = 0
    /\ st_pc = "idle"
    /\ julian = NoJulian

\* tools.py:214-222: select_images is called.
Call ==
    /\ pc = "idle"
    /\ \E a \in Calls : args' = a
    /\ pc' = "filter_dates"
    /\ UNCHANGED <<df, df_filtered, nights, selected_images, total_size_mb>>
    /\ UNCHANGED calcvars

\* tools.py:279-284: the date filter, into a new frame, and the empty result.
FilterDates ==
    /\ pc = "filter_dates"
    /\ df_filtered' = SelectSeq(df, LAMBDA r : InDateRange(r, args))
    /\ selected_images' = <<>>
    /\ total_size_mb' = FZero
    /\ pc' = "filter_clear"
    /\ UNCHANGED <<df, args, nights>>
    /\ UNCHANGED calcvars

\* tools.py:286-290: the clarity filter, when asked for.
FilterClear ==
    /\ pc = "filter_clear"
    /\ df_filtered' = IF args.limit_clear_images
                        THEN SelectSeq(df_filtered, IsClear)
                        ELSE df_filtered
    /\ pc' = "annotate"
    /\ UNCHANGED <<df, args, nights, selected_images, total_size_mb>>
    /\ UNCHANGED calcvars

\* The annotation of tools.py:294-296 written through to the catalogue
\* too, as it would be were df_filtered a view of df.
AnnotateInPlace ==
    /\ pc = "annotate"
    /\ df_filtered' = [i \in 1..Len(df_filtered) |->
          df_filtered[i] @@
            [sidereal_time |->
                get_sidereal_time(df_filtered[i].Timestamp_middle_UTC)]]
    /\ df' = [i \in 1..Len(df) |->
          IF \E k \in 1..Len(df_filtered) :
                df_filtered[k].Directory = df[i].Directory
            THEN df[i] @@
              [sidereal_time |-> get_sidereal_time(df[i].Timestamp_middle_UTC)]
            ELSE df[i]]
    /\ pc' = "select"
    /\ UNCHANGED <<args, nights, selected_images, total_size_mb>>
    /\ UNCHANGED calcvars

\* tools.py:292-296: the sidereal_time column of the filtered frame.
Annotate ==
    /\ pc = "annotate"
    /\ df_filtered' = [i \in 1..Len(df_filtered) |->
          df_filtered[i] @@
            [sidereal_time |->
                get_sidereal_time(df_filtered[i].Timestamp_middle_UTC)]]
    /\ pc' = "select"
    /\ UNCHANGED <<df, args, nights, selected_images, total_size_mb>>
    /\ UNCHANGED calcvars

\* tools.py:298-302: no sidereal_end, the loop over the nights starts.
GroupByNight ==
    /\ pc = "select"
    /\ args.sidereal_end = None
    /\ nights' = GroupKeys(df_filtered)
    /\ pc' = "loop"
    /\ UNCHANGED <<df, args, df_filtered, selected_images, total_size_mb>>
    /\ UNCHANGED calcvars

\* One turn of the loop without the test of tools.py:321-322: indexing
\* .values[0] of an empty selection raises IndexError.
NearestNightUnguarded ==
    /\ pc = "loop"
    /\ nights # <<>>
    /\ LET valid == ValidImages(NightGroup(df_filtered, Head(nights)), args)
       IN  IF Len(valid) = 0
             THEN /\ pc' = "error"
                  /\ UNCHANGED <<nights, selected_images, total_size_mb>>
             ELSE /\ \E closest_image \in Closest(valid, args) :
                       /\ total_size_mb' = FAdd(total_size_mb,
                              FDiv(closest_image.Filesize_bytes, 1000 * 1000))
                       /\ selected_images' =
                              Append(selected_images, closest_image.Directory)
                  /\ nights' = Tail(nights)
                  /\ pc' = "loop"
    /\ UNCHANGED <<df, args, df_filtered>>
    /\ UNCHANGED calcvars

\* tools.py:302-331: one turn of the loop, for the next night.  (A group
\* of groupby is never empty, so the test of tools.py:305 never holds.)
NearestNight ==
    /\ pc = "loop"
    /\ nights # <<>>
    /\ LET night_group == NightGroup(df_filtered, Head(nights))
           valid == ValidImages(night_group, args)
       IN  IF Len(night_group) = 0 \/ Len(valid) = 0
             THEN UNCHANGED <<selected_images, total_size_mb>>
             ELSE \E closest_image \in Closest(valid, args) :
                    /\ total_size_mb' = FAdd(total_size_mb,
                           FDiv(closest_image.Filesize_bytes, 1000 * 1000))
                    /\ selected_images' =
                           Append(selected_images, closest_image.Directory)
    /\ nights' = Tail(nights)
    /\ pc' = "loop"
    /\ UNCHANGED <<df, args, df_filtered>>
    /\ UNCHANGED calcvars

\* tools.py:302: the groups are used up.
LoopDone ==
    /\ pc = "loop"
    /\ nights = <<>>
    /\ pc' = "return"
    /\ UNCHANGED <<df, args, df_filtered, nights, selected_images, total_size_mb>>
    /\ UNCHANGED calcvars

\* tools.py:332-349: sidereal_end given, every row inside the window.
SelectRange ==
    /\ pc = "select"
    /\ args.sidereal_end # None
    /\ LET valid_images ==
             IF args.sidereal_start < args.sidereal_end[1]
               THEN SelectSeq(df_filtered,
                              LAMBDA r : InWindow(r.sidereal_time, args))
               ELSE SelectSeq(df_filtered,
                              LAMBDA r : InWrappedWindow(r.sidereal_time, args))
       IN  /\ selected_images' = selected_images \o Directories(valid_images)
           /\ total_size_mb' = FAdd(total_size_mb,
                                    FDiv(SumBytes(valid_images), 1000 * 1000))
    /\ pc' = "return"
    /\ UNCHANGED <<df, args, df_filtered, nights>>
    /\ UNCHANGED calcvars

\* tools.py:350: the result is handed over and the locals are dropped.
Return ==
    /\ pc = "return"
    /\ pc' = "idle"
    /\ args' = NoArgs
    /\ df_filtered' = <<>>
    /\ nights' = <<>>
    /\ selected_images' = <<>>
    /\ total_size_mb' = FZero
    /\ UNCHANGED df
    /\ UNCHANGED calcvars

Next ==
    \/ Call
    \/ FilterDates
    \/ FilterClear
    \/ Annotate
    \/ GroupByNight
    \/ NearestNight
    \/ LoopDone
    \/ SelectRange
    \/ Return

Spec == Init /\ [][Next]_vars

---------------------------------------------------------------------------
(* get_sidereal_time / siderial_time, tools.py:180-211, step by step.      *)

\* The timestamps explored: both sides of J2000.0 and of the calendar
\* reform of October 1582.
TimeGrid ==
    { Stamp(y, mo, d, h, mi, s) :
        y \in {1200, 1500, 1582, 1999, 2021}, mo \in {3, 10, 11},
        d \in {4, 5, 10, 15, 20}, h \in {0, 23}, mi \in {0, 59}, s \in {0, 59} }

\* get_sidereal_time is called with a timestamp (tools.py:202-210).
InitSidereal ==
    /\ utc_time \in TimeGrid
    /\ st = 0
    /\ st_pc = "call"
    /\ julian = NoJulian
    /\ df = <<>>
    /\ pc = "idle"
    /\ args = NoArgs
    /\ df_filtered = <<>>
    /\ nights = <<>>
    /\ selected_images = <<>>
    /\ total_size_mb = FZero

\* tools.py:190 and 151-177: julian_date(year, month, day, 0) is called
\* and leaves its d, its b and its result.
JulianDate ==
    /\ st_pc = "call"
    /\ julian' = [d   |-> julian_db(utc_time.year, utc_time.month, utc_time.day)[1],
                  b   |-> julian_db(utc_time.year, utc_time.month, utc_time.day)[2],
                  jd2 |-> julian_date2(utc_time.year, utc_time.month, utc_time.day)]
    /\ st_pc' = "polynomial"
    /\ UNCHANGED <<utc_time, st, selvars>>

\* tools.py:191-193: the Greenwich polynomial of the Julian date.
SiderealGreenwich ==
    /\ st_pc = "polynomial"
    /\ st' = GreenwichAt0h(utc_time.year, utc_time.month, utc_time.day)
    /\ st_pc' = "utc"
    /\ UNCHANGED <<utc_time, julian, selvars>>

\* tools.py:195: the time of day.
SiderealAddUtc ==
    /\ st_pc = "utc"
    /\ st' = st + UtcTerm(utc_time)
    /\ st_pc' = "long"
    /\ UNCHANGED <<utc_time, julian, selvars>>

\* tools.py:197: the longitude.
SiderealAddLong ==
    /\ st_pc = "long"
    /\ st' = st + LongTerm
    /\ st_pc' = "mod"
    /\ UNCHANGED <<utc_time, julian, selvars>>

\* tools.py:198-199: the reduction, and the return.
SiderealMod ==
    /\ st_pc = "mod"
    /\ st' = Mod24(st)
    /\ st_pc' = "done"
    /\ UNCHANGED <<utc_time, julian, selvars>>

NextSidereal ==
    \/ JulianDate
    \/ SiderealGreenwich
    \/ SiderealAddUtc
    \/ SiderealAddLong
    \/ SiderealMod

SpecSidereal == InitSidereal /\ [][NextSidereal]_vars

---------------------------------------------------------------------------
(* What the properties below speak of, written out from their statements.  *)

RowsOf(rows) == { rows[i] : i \in 1..Len(rows) }

Returned == { selected_images[i] : i \in 1..Len(selected_images) }

\* The catalogue row an identifier names.
CatalogueRow(directory) == CHOOSE r \in RowsOf(df) : r.Directory = directory

\* The place of an identifier in the catalogue.
CataloguePlace(directory) ==
    CHOOSE i \in 1..Len(df) : df[i].Directory = directory

\* The night a directory's first 8 characters encode, as an ordinal.
NightOf(directory) == DateOrd(NightDate(directory))

StartDay == DateOrd(ParseDate(args.start_date))

EndDay == DateOrd(ParseDate(args.end_date))

SiderealOf(r) == get_sidereal_time(r.Timestamp_middle_UTC)

PassesDates(r) == StartDay <= NightOf(r.Directory) /\ NightOf(r.Directory) <= EndDay

InSizeBand(r) == 10500000 <= r.Filesize_bytes /\ r.Filesize_bytes <= 11000000

PassesClarity(r) == args.limit_clear_images => InSizeBand(r)

\* The rows that survive the date and the clarity filter.
Survivors == { r \in RowsOf(df) : PassesDates(r) /\ PassesClarity(r) }

\* min((t - target) mod 24, (target - t) mod 24).
Circular(t, target) ==
    LET fwd == (t - target) % 864000
        bwd == (target - t) % 864000
    IN  IF fwd <= bwd THEN fwd ELSE bwd

NearTarget(r) == Circular(SiderealOf(r), args.sidereal_start) < args.time_limit

Nearest == args.sidereal_end = <<>>

InsideWindow(r) ==
    IF args.sidereal_start < args.sidereal_end[1]
      THEN args.sidereal_start <= SiderealOf(r) /\ SiderealOf(r) <= args.sidereal_end[1]
      ELSE SiderealOf(r) >= args.sidereal_start \/ SiderealOf(r) <= args.sidereal_end[1]

NoRepeats == Cardinality(Returned) = Len(selected_images)

---------------------------------------------------------------------------
(* The properties.                                                         *)

\* C1: every identifier select_images returns (either policy) names a row
\* whose night_date, the date in the first 8 characters of its directory,
\* lies in start_date..end_date, both ends included; the date filter
\* removes no row of the range, the rows of the first and last night
\* among them; and a row captured on the start_date calendar day but kept
\* in the previous night's folder is never returned.
C1_DateFilter ==
    pc # "idle" =>
      /\ \A d \in Returned : PassesDates(CatalogueRow(d))
      /\ pc = "filter_clear" =>
            \A r \in RowsOf(df) : PassesDates(r) => r \in RowsOf(df_filtered)
      /\ \A r \in RowsOf(df) :
            ( /\ DateOrd(r.Timestamp_middle) = StartDay
              /\ NightOf(r.Directory) < StartDay ) => r.Directory \notin Returned

\* C1 witness: a range policy call has returned rows of the first and of
\* the last night of the range, and has left out a row captured after
\* midnight on the start day that lies in the previous night's folder.
C1_Witness ==
    /\ pc = "return"
    /\ StartDay < EndDay
    /\ \E d \in Returned : NightOf(d) = StartDay
    /\ \E d \in Returned : NightOf(d) = EndDay
    /\ \E r \in RowsOf(df) :
          /\ DateOrd(r.Timestamp_middle) = StartDay
          /\ NightOf(r.Directory) < StartDay
          /\ r.Directory \notin Returned

\* C2: with limit_clear_images every returned identifier names a row of
\* 10,500,000 to 11,000,000 bytes, both ends included (so none of
\* 10,000,000), and the clarity filter removes no row of that band (so none
\* of 10,500,000, 10,800,000 or 11,000,000 bytes); without
\* limit_clear_images the filter removes no row at all.
C2_ClarityFilter ==
    pc # "idle" =>
      /\ args.limit_clear_images =>
            \A d \in Returned : InSizeBand(CatalogueRow(d))
      /\ pc = "annotate" =>
            \A r \in RowsOf(df) :
                (PassesDates(r) /\ (args.limit_clear_images => InSizeBand(r)))
                    => r \in RowsOf(df_filtered)

\* C2 witness: with limit_clear_images a call has returned a row of
\* 10,500,000 and a row of 11,000,000 bytes and has left out a row of
\* 10,000,000 bytes that lies in the date range and in the window.
C2_Witness ==
    /\ pc = "return"
    /\ args.limit_clear_images
    /\ ~Nearest
    /\ \E d \in Returned : CatalogueRow(d).Filesize_bytes = 10500000
    /\ \E d \in Returned : CatalogueRow(d).Filesize_bytes = 11000000
    /\ \E r \in RowsOf(df) :
          /\ r.Filesize_bytes = 10000000
          /\ PassesDates(r)
          /\ InsideWindow(r)
          /\ r.Directory \notin Returned

\* C3: without sidereal_end, select_images returns at most one identifier
\* per night, and exactly one for a night if and only if some survivor of
\* that night has circular distance to sidereal_start strictly below
\* time_limit; every returned row is such a survivor.
C3_NearestMatch ==
    (pc = "return" /\ Nearest) =>
      /\ \A d \in Returned :
            /\ \E r \in RowsOf(df) : r.Directory = d
            /\ CatalogueRow(d) \in Survivors
            /\ NearTarget(CatalogueRow(d))
      /\ \A n \in { NightOf(r.Directory) : r \in RowsOf(df) } :
            LET count == Cardinality({ i \in 1..Len(selected_images) :
                                          NightOf(selected_images[i]) = n })
                near  == { r \in Survivors :
                             NightOf(r.Directory) = n /\ NearTarget(r) }
            IN  /\ count <= 1
                /\ (count = 1) <=> (near # {})

\* C3 witness: a nearest-match call has returned one row for a night with
\* two survivors near the target, and nothing for a night in the range
\* whose survivor is not near it.
C3_Witness ==
    /\ pc = "return"
    /\ Nearest
    /\ \E r1, r2 \in Survivors :
          /\ r1 # r2
          /\ NightOf(r1.Directory) = NightOf(r2.Directory)
          /\ NearTarget(r1) /\ NearTarget(r2)
          /\ Cardinality({ d \in Returned : NightOf(d) = NightOf(r1.Directory) }) = 1
    /\ \E r \in Survivors :
          /\ ~NearTarget(r)
          /\ \A d \in Returned : NightOf(d) # NightOf(r.Directory)

\* C4: with sidereal_start < sidereal_end, select_images returns exactly
\* the survivors, of all nights, whose sidereal time t satisfies
\* sidereal_start <= t <= sidereal_end, each once.
C4_RangeMatch ==
    (pc = "return" /\ ~Nearest /\ args.sidereal_start < args.sidereal_end[1]) =>
      /\ Returned = { r.Directory : r \in
            { q \in Survivors :
                /\ args.sidereal_start <= SiderealOf(q)
                /\ SiderealOf(q) <= args.sidereal_end[1] } }
      /\ NoRepeats

\* C4 witness: such a call has returned a row at sidereal_start and a row
\* at sidereal_end, two of them of one night, and left a survivor out.
C4_Witness ==
    /\ pc = "return"
    /\ ~Nearest
    /\ args.sidereal_start < args.sidereal_end[1]
    /\ \E d \in Returned : SiderealOf(CatalogueRow(d)) = args.sidereal_start
    /\ \E d \in Returned : SiderealOf(CatalogueRow(d)) = args.sidereal_end[1]
    /\ \E d1, d2 \in Returned : d1 # d2 /\ NightOf(d1) = NightOf(d2)
    /\ \E r \in Survivors : r.Directory \notin Returned

\* C5: with sidereal_start >= sidereal_end, select_images returns exactly
\* the survivors with t >= sidereal_start or t <= sidereal_end, each once;
\* with 23.5 h and 0.5 h, survivors at 23.9 h and 0.1 h are returned and
\* one at 12.0 h is not.
C5_RangeWrap ==
    (pc = "return" /\ ~Nearest /\ args.sidereal_start >= args.sidereal_end[1]) =>
      /\ Returned = { r.Directory : r \in
            { q \in Survivors :
                \/ SiderealOf(q) >= args.sidereal_start
                \/ SiderealOf(q) <= args.sidereal_end[1] } }
      /\ NoRepeats
      /\ (args.sidereal_start = 846000 /\ args.sidereal_end[1] = 18000) =>
            \A r \in Survivors :
                /\ SiderealOf(r) \in {860400, 3600} => r.Directory \in Returned
                /\ SiderealOf(r) = 432000 => r.Directory \notin Returned

\* C5 witness: the call with 23.5 h and 0.5 h has returned survivors at
\* 23.9 h and 0.1 h and left out a survivor at 12.0 h.
C5_Witness ==
    /\ pc = "return"
    /\ ~Nearest
    /\ args.sidereal_start = 846000
    /\ args.sidereal_end[1] = 18000
    /\ \E d \in Returned : SiderealOf(CatalogueRow(d)) = 860400
    /\ \E d \in Returned : SiderealOf(CatalogueRow(d)) = 3600
    /\ \E r \in Survivors : SiderealOf(r) = 432000 /\ r.Directory \notin Returned

\* The bytes of the rows returned.
ReturnedBytes ==
    LET acc[i \in 0..Len(selected_images)] ==
            IF i = 0 THEN 0
            ELSE acc[i - 1] + CatalogueRow(selected_images[i]).Filesize_bytes
    IN  acc[Len(selected_images)]

\* C6: in both policies the total_size_mb returned is the sum of
\* filesize_bytes over the rows returned, divided by 1,000,000; rows of
\* 10,600,000 and 10,700,000 bytes give 21.3.
C6_TotalSize ==
    pc = "return" => total_size_mb = FDiv(ReturnedBytes, 1000000)

\* Whether some survivor matches the call's policy.
SomeMatch ==
    \E r \in Survivors : IF Nearest THEN NearTarget(r) ELSE InsideWindow(r)

C8_CatalogueUnchanged ==
    [][ /\ df' = df
        /\ \A i \in 1..Len(df') : "sidereal_time" \notin DOMAIN df'[i] ]_vars

\* C8 witness: a call has annotated its filtered copy and returned, and
\* the catalogue rows carry no sidereal_time.
C8_Witness ==
    /\ pc = "return"
    /\ df_filtered # <<>>
    /\ \A i \in 1..Len(df_filtered) : "sidereal_time" \in DOMAIN df_filtered[i]
    /\ \A i \in 1..Len(df) : "sidereal_time" \notin DOMAIN df[i]
    /\ selected_images # <<>>

\* C9: the value get_sidereal_time returns lies in [0, 24), also before
\* J2000.0, where the sum being reduced is negative.
C9_SiderealRange ==
    st_pc = "done" => (0 <= st /\ st < 864000)

\* C9 witness: a value has been returned for a date before J2000.0 whose
\* Greenwich term, time-of-day term and longitude term add up below zero.
C9_Witness ==
    /\ st_pc = "done"
    /\ utc_time.year < 2000
    /\ GreenwichAt0h(utc_time.year, utc_time.month, utc_time.day)
         + UtcTerm(utc_time) + LongTerm < 0

\* C10: the identifiers are returned, in the nearest-match policy, one per
\* night in ascending night_date, and in the range policy in the order
\* their rows have in the catalogue.
C10_Order ==
    pc = "return" =>
      \A i, j \in 1..Len(selected_images) :
          i < j =>
            IF Nearest
              THEN NightOf(selected_images[i]) < NightOf(selected_images[j])
              ELSE CataloguePlace(selected_images[i])
                     < CataloguePlace(selected_images[j])

\* C10 witness: a nearest-match call has returned two rows in ascending
\* night order from a catalogue that lists them the other way round.
C10_Witness ==
    /\ pc = "return"
    /\ Nearest
    /\ Len(selected_images) >= 2
    /\ CataloguePlace(selected_images[1]) > CataloguePlace(selected_images[2])

\* The absolute, non-circular difference |t - sidereal_start| of a row.
AbsoluteDifference(r) ==
    LET diff == SiderealOf(r) - args.sidereal_start
    IN  IF diff >= 0 THEN diff ELSE -diff

\* The survivors of a row's night that passed the circular pre-filter.
QualifyingOfNight(directory) ==
    { r \in Survivors :
        NightOf(r.Directory) = NightOf(directory) /\ NearTarget(r) }

C12_CircularClosest ==
    (pc = "return" /\ Nearest) =>
      \A dir \in Returned :
          \A r \in Survivors :
              NightOf(r.Directory) = NightOf(dir) =>
                Circular(SiderealOf(CatalogueRow(dir)), args.sidereal_start)
                  <= Circular(SiderealOf(r), args.sidereal_start)

\* A calendar date on or before 1582-10-04, the last day of the Julian
\* calendar.
OnOrBeforeReform(year, month, day) ==
    \/ year < 1582
    \/ year = 1582 /\ month < 10
    \/ year = 1582 /\ month = 10 /\ day <= 4

\* 1582-10-05 .. 1582-10-14, the days the reform skipped.
InReformGap(year, month, day) ==
    year = 1582 /\ month = 10 /\ 5 <= day /\ day <= 14

\* b = 2 - a + floor(a / 4) with a = floor(y / 100), y the year counted
\* from March.
GregorianCorrection(year, month) ==
    LET y == IF month > 2 THEN year ELSE year - 1
        a == y \div 100
    IN  2 - a + (a \div 4)

\* C13: julian_date uses b = 0 for every calendar date on or before
\* 1582-10-04 (1500-11-20 and 1200-03-10 among them), clamps to d = 15
\* with b = -10 only for 1582-10-05 .. 1582-10-14, and uses the Gregorian
\* correction b = 2 - a + floor(a / 4), a = floor(y / 100), for every date
\* after the reform.
C13_CalendarBranches ==
    st_pc \in {"polynomial", "utc", "long", "mod", "done"} =>
      LET year  == utc_time.year
          month == utc_time.month
          day   == utc_time.day
      IN  IF OnOrBeforeReform(year, month, day)
            THEN julian.b = 0 /\ julian.d = day
          ELSE IF InReformGap(year, month, day)
            THEN julian.b = -10 /\ julian.d = 15
          ELSE julian.b = GregorianCorrection(year, month) /\ julian.d = day

=============================================================================
